---- MODULE Spec2Model ----
(***************************************************************************)
(* Model of the outline store of outliner.py: the OutlineItem objects, the *)
(* OutlineModel operations over them and the wall clock they read.         *)
(*                                                                         *)
(* A URL is modelled by the list str.split("/") gives for it, so           *)
(* "/outline/0/" is <<"", "outline", "0", "">>.  OutlineItem objects live  *)
(* in a heap indexed by object identity; all_items maps URLs to objects    *)
(* and a children list holds objects, exactly as in the source.            *)
(***************************************************************************)
EXTENDS Integers, Sequences, FiniteSets, TLC

\* ---------------------------------------------------------------- bounds
MaxItems == 2        \* successful create_item calls explored, any inputs
MaxTreeItems == 4    \* successful create_item calls explored, clock at rest
MaxTicks == 1        \* advances of the wall clock explored
MaxPollItems == 1    \* successful create_item calls explored among polls
MaxPollTicks == 2    \* advances of the wall clock explored among polls
MaxHttpItems == 2    \* successful create_item calls explored among requests
MaxRaceItems == 2    \* create_item calls explored running at the same time

\* ------------------------------------------------------------- constants
Retention == 3600    \* seconds an update record is kept
None == -1           \* Python's None, as returned by dict.get
True == 1            \* Python's True, an int
False == 0           \* Python's False, an int
Root == 0            \* identity of the object held in self.root
ROOT_URL == <<"", "outline", "">>
MISSING_URL == <<"", "outline", "missing", "">>
Texts == {"A", "B"}
Threads == {"t1", "t2"}   \* threads of the server that run handlers
PollTexts == {"A"}   \* texts given among polls, which do not read them

VARIABLES
    heap,           \* object identity -> OutlineItem fields
    all_items,      \* OutlineModel.all_items : URL -> object identity
    updated_items,  \* OutlineModel.updated_items : set of URLs
    item_count,     \* OutlineModel.item_count
    clock,          \* the value time.time() last returned
    last,           \* the last step: a call and what it returned, or time going by
    frames          \* the create_item calls of the handler threads, by thread

vars == <<heap, all_items, updated_items, item_count, clock, last, frames>>

\* ------------------------------------------------------------------ URLs
\* new_url with the index taken after the append instead of before it.
new_url_off(parent_path, n) ==
    SubSeq(parent_path, 1, Len(parent_path) - 1)
        \o << parent_path[Len(parent_path)] \o ToString(n + 1), "" >>

\* f"{parent_path}{n}/"
new_url(parent_path, n) ==
    SubSeq(parent_path, 1, Len(parent_path) - 1)
        \o << parent_path[Len(parent_path)] \o ToString(n), "" >>

\* "/".join(path.split("/")[:-2]) + "/"
parent_path_of(path) ==
    LET parts == SubSeq(path, 1, Len(path) - 2)
    IN  IF parts = <<>> THEN <<"", "">> ELSE parts \o <<"">>

\* ----------------------------------------------------------------- clock
\* Number of advances that lead from the initial reading, 1, to reading c,
\* an advance being a moment (1) or a whole retention window.
Steps(c) == ((c - 1) \div Retention) + ((c - 1) % Retention)

\* time.time(): the reading is the previous one plus the time that went by,
\* which may be nothing at the clock's resolution.  st.sched lists, for the
\* readings a call is going to take, how far the clock moved before each;
\* the schedules a run offers keep the clock within the run's bound.
time_time(st) ==
    LET d == IF st.sched = <<>> THEN 0 ELSE Head(st.sched)
    IN  [st EXCEPT !.clock = @ + d, !.reads = @ + 1,
                   !.sched = IF @ = <<>> THEN <<>> ELSE Tail(@)]

\* ----------------------------------------------------------- OutlineItem
OutlineItem(url, text, now) ==
    [url |-> url, text |-> text, children |-> <<>>, last_modified |-> now]

to_dict(h, item) ==
    [url |-> h[item].url, text |-> h[item].text,
     children |-> [i \in 1..Len(h[item].children) |-> h[h[item].children[i]].url]]

add_child(st, self, child) ==
    LET s1 == time_time(st)
    IN  [s1 EXCEPT !.heap[self] =
            [@ EXCEPT !.children = Append(@, child),
                      !.last_modified = s1.clock]]

\* list.remove: drops the first occurrence
list_remove(seq, x) ==
    LET i == CHOOSE j \in 1..Len(seq) :
                 seq[j] = x /\ \A k \in 1..(j - 1) : seq[k] # x
    IN  SubSeq(seq, 1, i - 1) \o SubSeq(seq, i + 1, Len(seq))

\* remove_child that leaves last_modified as it was.
remove_child_nobump(st, self, child) ==
    IF \E i \in 1..Len(st.heap[self].children) : st.heap[self].children[i] = child
    THEN [st |-> [st EXCEPT !.heap[self] =
                    [@ EXCEPT !.children = list_remove(@, child)]],
          ret |-> True]
    ELSE [st |-> st, ret |-> False]

remove_child(st, self, child) ==
    IF \E i \in 1..Len(st.heap[self].children) : st.heap[self].children[i] = child
    THEN LET s1 == time_time(st)
         IN  [st |-> [s1 EXCEPT !.heap[self] =
                        [@ EXCEPT !.children = list_remove(@, child),
                                  !.last_modified = s1.clock]],
              ret |-> True]
    ELSE [st |-> st, ret |-> False]

\* ---------------------------------------------------------- OutlineModel
\* get_item that falls back to the root: self.all_items.get(path, self.root)
get_item_default(st, path) ==
    IF path \in DOMAIN st.all_items THEN st.all_items[path] ELSE Root

get_item(st, path) ==
    IF path \in DOMAIN st.all_items THEN st.all_items[path] ELSE None

\* create_item that records the new URL only, not parent_path.
create_item_childonly(st, parent_path, text) ==
    LET parent == get_item(st, parent_path)
    IN  IF parent = None THEN [st |-> st, ret |-> None]
        ELSE
        LET url == new_url(parent_path, Len(st.heap[parent].children))
            s1 == [st EXCEPT !.item_count = @ + 1]
            new_item == s1.item_count
            s2 == time_time(s1)
            s3 == [s2 EXCEPT !.heap =
                     (new_item :> OutlineItem(url, text, s2.clock)) @@ @]
            s4 == add_child(s3, parent, new_item)
            s5 == [s4 EXCEPT !.all_items = (url :> new_item) @@ @]
            s6 == [s5 EXCEPT !.updated_items = @ \cup {url}]
        IN  [st |-> s6, ret |-> new_item]

\* create_item that computes the key of all_items anew, after the append.
create_item_rekey(st, parent_path, text) ==
    LET parent == get_item(st, parent_path)
    IN  IF parent = None THEN [st |-> st, ret |-> None]
        ELSE
        LET url == new_url(parent_path, Len(st.heap[parent].children))
            s1 == [st EXCEPT !.item_count = @ + 1]
            new_item == s1.item_count
            s2 == time_time(s1)
            s3 == [s2 EXCEPT !.heap =
                     (new_item :> OutlineItem(url, text, s2.clock)) @@ @]
            s4 == add_child(s3, parent, new_item)
            key == new_url(parent_path, Len(s4.heap[parent].children))
            s5 == [s4 EXCEPT !.all_items = (key :> new_item) @@ @]
            s6 == [s5 EXCEPT !.updated_items = @ \cup {key}]
            s7 == [s6 EXCEPT !.updated_items = @ \cup {parent_path}]
        IN  [st |-> s7, ret |-> new_item]

create_item(st, parent_path, text) ==
    LET parent == get_item(st, parent_path)
    IN  IF parent = None THEN [st |-> st, ret |-> None]
        ELSE
        LET url == new_url(parent_path, Len(st.heap[parent].children))
            s1 == [st EXCEPT !.item_count = @ + 1]
            new_item == s1.item_count
            s2 == time_time(s1)
            s3 == [s2 EXCEPT !.heap =
                     (new_item :> OutlineItem(url, text, s2.clock)) @@ @]
            s4 == add_child(s3, parent, new_item)
            s5 == [s4 EXCEPT !.all_items = (url :> new_item) @@ @]
            s6 == [s5 EXCEPT !.updated_items = @ \cup {url}]
            s7 == [s6 EXCEPT !.updated_items = @ \cup {parent_path}]
        IN  [st |-> s7, ret |-> new_item]

\* update_item that does not record the path in updated_items.
update_item_unmarked(st, path, text) ==
    LET item == get_item(st, path)
    IN  IF item = None THEN [st |-> st, ret |-> None]
        ELSE
        LET s1 == time_time(st)
            s2 == [s1 EXCEPT !.heap[item] =
                     [@ EXCEPT !.text = text, !.last_modified = s1.clock]]
        IN  [st |-> s2, ret |-> item]

update_item(st, path, text) ==
    LET item == get_item(st, path)
    IN  IF item = None THEN [st |-> st, ret |-> None]
        ELSE
        LET s1 == time_time(st)
            s2 == [s1 EXCEPT !.heap[item] =
                     [@ EXCEPT !.text = text, !.last_modified = s1.clock]]
            s3 == [s2 EXCEPT !.updated_items = @ \cup {path}]
        IN  [st |-> s3, ret |-> item]

RECURSIVE delete_item(_, _)
RECURSIVE delete_children(_, _)

\* for child in list(item.children): self.delete_item(child.url)
delete_children(st, kids) ==
    IF kids = <<>> THEN st
    ELSE delete_children(delete_item(st, st.heap[Head(kids)].url).st, Tail(kids))

\* delete_item without the guard on the root's URL.
delete_item_noroot(st, path) ==
    LET item == get_item(st, path)
    IN  IF item = None THEN [st |-> st, ret |-> False]
        ELSE
        LET s1 == delete_children(st, st.heap[item].children)
            parent_path == parent_path_of(path)
            parent == get_item(s1, parent_path)
            s2 == IF parent # None THEN remove_child(s1, parent, item).st
                  ELSE s1
            s3 == [s2 EXCEPT !.all_items =
                     [u \in (DOMAIN @) \ {path} |-> @[u]]]
            s4 == [s3 EXCEPT !.updated_items = @ \cup {parent_path}]
        IN  [st |-> s4, ret |-> True]

delete_item(st, path) ==
    IF path = ROOT_URL THEN [st |-> st, ret |-> False]
    ELSE
    LET item == get_item(st, path)
    IN  IF item = None THEN [st |-> st, ret |-> False]
        ELSE
        LET s1 == delete_children(st, st.heap[item].children)
            parent_path == parent_path_of(path)
            parent == get_item(s1, parent_path)
            s2 == IF parent # None THEN remove_child(s1, parent, item).st
                  ELSE s1
            s3 == [s2 EXCEPT !.all_items =
                     [u \in (DOMAIN @) \ {path} |-> @[u]]]
            s4 == [s3 EXCEPT !.updated_items = @ \cup {parent_path}]
        IN  [st |-> s4, ret |-> True]

\* cleanup_old_updates that also drops the URLs that no longer resolve.
cleanup_old_updates_stale(st, cutoff_time) ==
    LET to_remove == {url \in st.updated_items :
                         \/ get_item(st, url) = None
                         \/ st.heap[get_item(st, url)].last_modified < cutoff_time}
    IN  [st EXCEPT !.updated_items = @ \ to_remove]

cleanup_old_updates(st, cutoff_time) ==
    LET to_remove == {url \in st.updated_items :
                         /\ get_item(st, url) # None
                         /\ st.heap[get_item(st, url)].last_modified < cutoff_time}
    IN  [st EXCEPT !.updated_items = @ \ to_remove]

\* get_updated_items that also returns what was modified at since itself.
get_updated_items_inclusive(st, since) ==
    LET s1 == time_time(st)
        current_time == s1.clock
        updated == {url \in st.updated_items :
                       /\ get_item(st, url) # None
                       /\ st.heap[get_item(st, url)].last_modified >= since}
    IN  [st |-> cleanup_old_updates(s1, current_time - Retention),
         ret |-> updated]

\* The result list has the iteration order of a set; it is kept as the set
\* of its elements.
get_updated_items(st, since) ==
    LET s1 == time_time(st)
        current_time == s1.clock
        updated == {url \in st.updated_items :
                       /\ get_item(st, url) # None
                       /\ st.heap[get_item(st, url)].last_modified > since}
    IN  [st |-> cleanup_old_updates(s1, current_time - Retention),
         ret |-> updated]

clear_updated_items(st) ==
    [st EXCEPT !.updated_items = {}]

\* --------------------------------------------- create_item, line by line
\* The local variables of a call of create_item and the line it is at;
\* "idle" when the thread runs no call (the locals of the call that
\* returned are still there).
NoCall ==
    [pc |-> "idle", parent_path |-> <<>>, text |-> "", parent |-> None,
     new_url |-> <<>>, new_item |-> None]

\* The identity of an object made while other calls are running: the first
\* one not in use.
new_object(h) ==
    CHOOSE o \in 1..Cardinality(DOMAIN h) : o \notin DOMAIN h

\* line 52: parent = self.get_item(parent_path)
line_52(st, f) ==
    [st |-> st, f |-> [f EXCEPT !.parent = get_item(st, f.parent_path),
                                !.pc = "53"]]

\* lines 53-54: if parent is None: return None
line_53(st, f) ==
    [st |-> st, f |-> [f EXCEPT !.pc = IF f.parent = None THEN "idle" ELSE "57"]]

\* line 57: new_url = f"{parent_path}{len(parent.children)}/"
line_57(st, f) ==
    [st |-> st,
     f |-> [f EXCEPT !.new_url =
                        new_url(f.parent_path, Len(st.heap[f.parent].children)),
                     !.pc = "58"]]

\* line 58: self.item_count += 1
line_58(st, f) ==
    [st |-> [st EXCEPT !.item_count = @ + 1], f |-> [f EXCEPT !.pc = "60"]]

\* line 60: new_item = OutlineItem(new_url, text)
line_60(st, f) ==
    LET s1 == time_time(st)
        o == new_object(st.heap)
    IN  [st |-> [s1 EXCEPT !.heap = (o :> OutlineItem(f.new_url, f.text, s1.clock)) @@ @],
         f |-> [f EXCEPT !.new_item = o, !.pc = "61"]]

\* line 61: parent.add_child(new_item)
line_61(st, f) ==
    [st |-> add_child(st, f.parent, f.new_item), f |-> [f EXCEPT !.pc = "62"]]

\* line 62 with setdefault: an entry already there is kept.
line_62_setdefault(st, f) ==
    [st |-> [st EXCEPT !.all_items = @ @@ (f.new_url :> f.new_item)],
     f |-> [f EXCEPT !.pc = "63"]]

\* line 62: self.all_items[new_url] = new_item
line_62(st, f) ==
    [st |-> [st EXCEPT !.all_items = (f.new_url :> f.new_item) @@ @],
     f |-> [f EXCEPT !.pc = "63"]]

\* line 63: self.updated_items.add(new_url)
line_63(st, f) ==
    [st |-> [st EXCEPT !.updated_items = @ \cup {f.new_url}],
     f |-> [f EXCEPT !.pc = "64"]]

\* line 64: self.updated_items.add(parent_path)
line_64(st, f) ==
    [st |-> [st EXCEPT !.updated_items = @ \cup {f.parent_path}],
     f |-> [f EXCEPT !.pc = "66"]]

\* line 66: return new_item
line_66(st, f) ==
    [st |-> st, f |-> [f EXCEPT !.pc = "idle"]]

\* -------------------------------------------------------- route handlers
\* What request.json may be: None when the request carries no JSON, or the
\* value parsed from the body: an object without "text", an object with
\* "text", or a value that is true and not an object, here a non-empty
\* array.
RequestJson ==
    {[kind |-> "none"], [kind |-> "object"], [kind |-> "array"]}
        \cup {[kind |-> "object", text |-> t] : t \in Texts}

\* request.json if request.json else {}: an object without members is false.
request_data(json) ==
    IF json.kind = "none" THEN [kind |-> "object"] ELSE json

\* data.get exists for an object only: on an array it raises AttributeError,
\* which the framework answers with status 500.
has_get(data) == data.kind = "object"

\* data.get('text', '')
data_text(data) == IF "text" \in DOMAIN data THEN data.text ELSE ""

\* f"/outline/{item_path}/", item_path being the list of its segments
route_url(item_path) == <<"", "outline">> \o item_path \o <<"">>

error(message) == [error |-> message]

handle_root_get(st) ==
    [st |-> st, ret |-> Root, status |-> 200, body |-> to_dict(st.heap, Root)]

handle_root_post(st, json) ==
    IF ~has_get(request_data(json))
    THEN [st |-> st, ret |-> None, status |-> 500, body |-> error("AttributeError")]
    ELSE
    LET r == create_item(st, ROOT_URL, data_text(request_data(json)))
    IN  IF r.ret = None
        THEN [st |-> r.st, ret |-> r.ret, status |-> 404,
              body |-> error("Parent not found")]
        ELSE [st |-> r.st, ret |-> r.ret, status |-> 201,
              body |-> to_dict(r.st.heap, r.ret)]

route_get_item(st, item_path) ==
    LET url == route_url(item_path)
        item == get_item(st, url)
    IN  IF item = None
        THEN [st |-> st, ret |-> item, status |-> 404,
              body |-> error("Item not found")]
        ELSE [st |-> st, ret |-> item, status |-> 200,
              body |-> to_dict(st.heap, item)]

route_create_item(st, item_path, json) ==
    LET url == route_url(item_path)
    IN  IF ~has_get(request_data(json))
        THEN [st |-> st, ret |-> None, status |-> 500,
              body |-> error("AttributeError")]
        ELSE
        LET r == create_item(st, url, data_text(request_data(json)))
        IN  IF r.ret = None
            THEN [st |-> r.st, ret |-> r.ret, status |-> 404,
                  body |-> error("Parent not found")]
            ELSE [st |-> r.st, ret |-> r.ret, status |-> 201,
                  body |-> to_dict(r.st.heap, r.ret)]

route_update_item(st, item_path, json) ==
    LET url == route_url(item_path)
    IN  IF ~has_get(request_data(json))
        THEN [st |-> st, ret |-> None, status |-> 500,
              body |-> error("AttributeError")]
        ELSE
        LET r == update_item(st, url, data_text(request_data(json)))
        IN  IF r.ret = None
            THEN [st |-> r.st, ret |-> r.ret, status |-> 404,
                  body |-> error("Item not found")]
            ELSE [st |-> r.st, ret |-> r.ret, status |-> 200,
                  body |-> to_dict(r.st.heap, r.ret)]

route_delete_item(st, item_path) ==
    LET url == route_url(item_path)
        r == delete_item(st, url)
    IN  IF r.ret = True
        THEN [st |-> r.st, ret |-> r.ret, status |-> 204, body |-> ""]
        ELSE [st |-> r.st, ret |-> r.ret, status |-> 404,
              body |-> error("Item not found")]

\* ------------------------------------------------------- object lifetime
RECURSIVE Closure(_, _)
Closure(h, objs) ==
    LET more == objs \cup UNION {{h[o].children[i] : i \in 1..Len(h[o].children)}
                                  : o \in objs}
    IN  IF more = objs THEN objs ELSE Closure(h, more)

\* Objects still referenced from self.root or from all_items.
Referenced(h, items) ==
    Closure(h, {Root} \cup {items[u] : u \in DOMAIN items})

\* An object nothing refers to any more is freed.
Freed(st) ==
    [st EXCEPT !.heap =
        [o \in Referenced(st.heap, st.all_items) |-> st.heap[o]]]

\* -------------------------------------------------------------- the runs
Store(sched) ==
    [heap |-> heap, all_items |-> all_items, updated_items |-> updated_items,
     item_count |-> item_count, clock |-> clock, sched |-> sched, reads |-> 0]

Commit(st) ==
    \E f \in {Freed(st)} :
        /\ heap' = f.heap
        /\ all_items' = f.all_items
        /\ updated_items' = f.updated_items
        /\ item_count' = f.item_count
        /\ clock' = f.clock
        /\ frames' = frames

RECURSIVE Sum(_)
Sum(s) == IF s = <<>> THEN 0 ELSE Head(s) + Sum(Tail(s))

\* The ways the clock may move over the n readings of one call.
Scheds(n) == {s \in [1..n -> {0, 1}] : Sum(s) <= MaxTicks - Steps(clock)}

\* The clock does not move during the call.
AtRest == <<>>

\* URLs a caller may pass: those that resolve, those the model has named
\* before (of deleted items, or marked as updated), and one that never
\* resolves.
Paths ==
    (DOMAIN all_items) \cup updated_items
        \cup {heap[o].url : o \in DOMAIN heap}
        \cup {MISSING_URL}

Init ==
    /\ heap = (Root :> [OutlineItem(ROOT_URL, "", 1) EXCEPT !.text = "My Outline"])
    /\ all_items = (ROOT_URL :> Root)
    /\ updated_items = {}
    /\ item_count = 0
    /\ clock = 1
    /\ last = [op |-> "init", path |-> <<>>, text |-> "", ret |-> None]
    /\ frames = [t \in Threads |-> NoCall]

CreateItemCall(parent_path, text, sched) ==
    \E r \in {create_item(Store(sched), parent_path, text)} :
        /\ Commit(r.st)
        /\ last' = [op |-> "create_item", path |-> parent_path, text |-> text,
                    ret |-> r.ret]

UpdateItemCall(path, text, sched) ==
    \E r \in {update_item(Store(sched), path, text)} :
        /\ Commit(r.st)
        /\ last' = [op |-> "update_item", path |-> path, text |-> text,
                    ret |-> r.ret]

DeleteItemCall(path, sched) ==
    \E r \in {delete_item(Store(sched), path)} :
        /\ Commit(r.st)
        /\ last' = [op |-> "delete_item", path |-> path, text |-> "",
                    ret |-> r.ret]

\* One call, however the clock moves over the readings it takes.
CreateStep(parent_path, text) ==
    \E sched \in Scheds(create_item(Store(AtRest), parent_path, text).st.reads) :
        CreateItemCall(parent_path, text, sched)

UpdateStep(path, text) ==
    \E sched \in Scheds(update_item(Store(AtRest), path, text).st.reads) :
        UpdateItemCall(path, text, sched)

DeleteStep(path) ==
    \E sched \in Scheds(delete_item(Store(AtRest), path).st.reads) :
        DeleteItemCall(path, sched)

CreateItem ==
    \E parent_path \in Paths, text \in Texts :
        /\ parent_path \in DOMAIN all_items => item_count < MaxItems
        /\ CreateStep(parent_path, text)

UpdateItem ==
    \E path \in Paths, text \in Texts : UpdateStep(path, text)

DeleteItem ==
    \E path \in Paths : DeleteStep(path)

\* Time goes by between two calls.
Elapse ==
    /\ Steps(clock) < MaxTicks
    /\ clock' = clock + 1
    /\ last' = [op |-> "elapse", path |-> <<>>, text |-> "", ret |-> None]
    /\ UNCHANGED <<heap, all_items, updated_items, item_count, frames>>

Next ==
    \/ CreateItem
    \/ UpdateItem
    \/ DeleteItem
    \/ Elapse

Spec == Init /\ [][Next]_vars

\* Creates and deletes only, with the clock at rest, to a greater number of
\* items.
TreeCreate ==
    \E parent_path \in Paths, text \in Texts :
        /\ parent_path \in DOMAIN all_items => item_count < MaxTreeItems
        /\ CreateItemCall(parent_path, text, AtRest)

TreeDelete ==
    \E path \in Paths : DeleteItemCall(path, AtRest)

NextTree ==
    \/ TreeCreate
    \/ TreeDelete

SpecTree == Init /\ [][NextTree]_vars

\* Clients poll for updates while the store is changed: the calls of the
\* store with the clock at rest, time going by between them by a moment or
\* by a whole retention window, and get_updated_items and
\* clear_updated_items.
PollScheds(n) ==
    {s \in [1..n -> {0, 1}] : Sum(s) <= MaxPollTicks - Steps(clock)}

\* Values of since a client may pass: none (0), the present time and the
\* times at which items were modified.
Sinces == {0, clock} \cup {heap[o].last_modified : o \in DOMAIN heap}

GetUpdatedItemsCall(since, sched) ==
    \E r \in {get_updated_items(Store(sched), since)} :
        /\ Commit(r.st)
        /\ last' = [op |-> "get_updated_items", path |-> <<>>, text |-> "",
                    ret |-> None, since |-> since, now |-> r.st.clock,
                    updated |-> r.ret]

ClearUpdatedItemsCall ==
    /\ Commit(clear_updated_items(Store(AtRest)))
    /\ last' = [op |-> "clear_updated_items", path |-> <<>>, text |-> "",
                ret |-> None]

PollCreate ==
    \E parent_path \in Paths, text \in PollTexts :
        /\ parent_path \in DOMAIN all_items => item_count < MaxPollItems
        /\ CreateItemCall(parent_path, text, AtRest)

PollUpdate ==
    \E path \in Paths, text \in PollTexts : UpdateItemCall(path, text, AtRest)

PollDelete ==
    \E path \in Paths : DeleteItemCall(path, AtRest)

GetUpdatedItems ==
    \E since \in Sinces, sched \in PollScheds(1) :
        GetUpdatedItemsCall(since, sched)

ClearUpdatedItems == ClearUpdatedItemsCall

\* Time goes by between two calls: a moment, or a retention window.
Pass ==
    \E d \in {1, Retention} :
        /\ Steps(clock) < MaxPollTicks
        /\ clock' = clock + d
        /\ last' = [op |-> "elapse", path |-> <<>>, text |-> "", ret |-> None]
        /\ UNCHANGED <<heap, all_items, updated_items, item_count, frames>>

NextPoll ==
    \/ PollCreate
    \/ PollUpdate
    \/ PollDelete
    \/ GetUpdatedItems
    \/ ClearUpdatedItems
    \/ Pass

SpecPoll == Init /\ [][NextPoll]_vars

\* Requests to the routes of the outline, with the clock at rest.
\* item_path is what the path converter hands over: the segments between
\* "/outline/" and the closing "/", at least one.
ItemPaths == {SubSeq(p, 3, Len(p) - 1) : p \in Paths \ {ROOT_URL}}

\* The request was answered: the store is as the handler left it and last
\* tells the request, what the store returned and the response.
Respond(method, url, json, r) ==
    /\ Commit(r.st)
    /\ last' = [op |-> method, path |-> url, text |-> "", ret |-> r.ret,
                json |-> json, status |-> r.status, body |-> r.body]

NoJson == [kind |-> "none"]

HttpRootGet ==
    \E json \in {NoJson} :
        Respond("GET", ROOT_URL, json, handle_root_get(Store(AtRest)))

HttpRootPost ==
    \E json \in RequestJson :
        /\ item_count < MaxHttpItems
        /\ Respond("POST", ROOT_URL, json, handle_root_post(Store(AtRest), json))

HttpGet ==
    \E item_path \in ItemPaths :
        Respond("GET", route_url(item_path), NoJson,
                route_get_item(Store(AtRest), item_path))

HttpPost ==
    \E item_path \in ItemPaths, json \in RequestJson :
        /\ route_url(item_path) \in DOMAIN all_items => item_count < MaxHttpItems
        /\ Respond("POST", route_url(item_path), json,
                   route_create_item(Store(AtRest), item_path, json))

HttpPut ==
    \E item_path \in ItemPaths, json \in RequestJson :
        Respond("PUT", route_url(item_path), json,
                route_update_item(Store(AtRest), item_path, json))

HttpDelete ==
    \E item_path \in ItemPaths :
        Respond("DELETE", route_url(item_path), NoJson,
                route_delete_item(Store(AtRest), item_path))

NextHttp ==
    \/ HttpRootGet
    \/ HttpRootPost
    \/ HttpGet
    \/ HttpPost
    \/ HttpPut
    \/ HttpDelete

SpecHttp == Init /\ [][NextHttp]_vars

\* Handlers run on threads of the server (app.run, line 257) and the store
\* takes no lock: a thread may run any line of create_item between two
\* lines of another thread's create_item.  The clock is at rest.
InFlight ==
    Cardinality({t \in Threads : frames[t].pc \in {"52", "53", "57", "58"}})

\* The thread has run its line: the store and its locals are as the line
\* left them.
Ran(t, r) ==
    /\ heap' = r.st.heap
    /\ all_items' = r.st.all_items
    /\ updated_items' = r.st.updated_items
    /\ item_count' = r.st.item_count
    /\ clock' = r.st.clock
    /\ frames' = [frames EXCEPT ![t] = r.f]
    /\ last' = IF r.f.pc = "idle"
               THEN [op |-> "create_item", path |-> r.f.parent_path,
                     text |-> r.f.text,
                     ret |-> IF r.f.parent = None THEN None ELSE r.f.new_item]
               ELSE last

\* A handler on thread t calls create_item(parent_path, text).
RaceCall ==
    \E t \in Threads, parent_path \in Paths, text \in PollTexts :
        /\ frames[t].pc = "idle"
        /\ item_count + InFlight < MaxRaceItems
        /\ frames' = [frames EXCEPT ![t] =
               [NoCall EXCEPT !.pc = "52", !.parent_path = parent_path,
                              !.text = text]]
        /\ UNCHANGED <<heap, all_items, updated_items, item_count, clock, last>>

Line52 == \E t \in Threads :
    frames[t].pc = "52" /\ Ran(t, line_52(Store(AtRest), frames[t]))

Line53 == \E t \in Threads :
    frames[t].pc = "53" /\ Ran(t, line_53(Store(AtRest), frames[t]))

Line57 == \E t \in Threads :
    frames[t].pc = "57" /\ Ran(t, line_57(Store(AtRest), frames[t]))

Line58 == \E t \in Threads :
    frames[t].pc = "58" /\ Ran(t, line_58(Store(AtRest), frames[t]))

Line60 == \E t \in Threads :
    frames[t].pc = "60" /\ Ran(t, line_60(Store(AtRest), frames[t]))

Line61 == \E t \in Threads :
    frames[t].pc = "61" /\ Ran(t, line_61(Store(AtRest), frames[t]))

Line62 == \E t \in Threads :
    frames[t].pc = "62" /\ Ran(t, line_62(Store(AtRest), frames[t]))

Line63 == \E t \in Threads :
    frames[t].pc = "63" /\ Ran(t, line_63(Store(AtRest), frames[t]))

Line64 == \E t \in Threads :
    frames[t].pc = "64" /\ Ran(t, line_64(Store(AtRest), frames[t]))

Line66 == \E t \in Threads :
    frames[t].pc = "66" /\ Ran(t, line_66(Store(AtRest), frames[t]))

NextRace ==
    \/ RaceCall
    \/ Line52
    \/ Line53
    \/ Line57
    \/ Line58
    \/ Line60
    \/ Line61
    \/ Line62
    \/ Line63
    \/ Line64
    \/ Line66

SpecRace == Init /\ [][NextRace]_vars

\* ------------------------------------------------------------ properties
\* Every step writes its own record into last, so a step that changes
\* anything is a call of last'.op: these say which call a step is.
Created(p, t) == last'.op = "create_item" /\ last'.path = p /\ last'.text = t
Updated(k, t) == last'.op = "update_item" /\ last'.path = k /\ last'.text = t
Deleted(k) == last'.op = "delete_item" /\ last'.path = k

\* The node a URL resolves to.
Node(k) == heap[all_items[k]]

\* The URL of child number n of the item at URL p (p ends with "/").
ChildKey(p, n) == SubSeq(p, 1, Len(p) - 1) \o <<ToString(n), "">>

\* The URL left when the last segment of k is stripped.
ParentKey(k) == SubSeq(k, 1, Len(k) - 2) \o <<"">>

\* d is k or lies below k: the text of k is a prefix of the text of d.
Below(d, k) ==
    /\ Len(d) >= Len(k)
    /\ SubSeq(d, 1, Len(k) - 1) = SubSeq(k, 1, Len(k) - 1)

ChildUrls(o) == [i \in 1..Len(heap[o].children) |-> heap[heap[o].children[i]].url]

\* C1: the key a successful create_item computes is not in all_items just
\* before the insertion, so a create never overwrites an entry.
C1_NoCollision ==
    [][\A p \in DOMAIN all_items, t \in Texts :
          Created(p, t) =>
              ChildKey(p, Len(Node(p).children)) \notin DOMAIN all_items]_vars

\* C2: after delete_item(k) returned True, neither k nor any key below k
\* resolves.
C2_CascadingDelete ==
    [][\A k \in Paths :
          (Deleted(k) /\ last'.ret = True) =>
              \A d \in DOMAIN all_items' : ~Below(d, k)]_vars

\* C3: a key keeps resolving to a node with that key and the same text over
\* every step that neither removes the key nor is an update_item on it.
C3_RoundTrip ==
    [][\A k \in DOMAIN all_items :
          (k \in DOMAIN all_items' /\ ~(\E t \in Texts : Updated(k, t))) =>
              /\ heap'[all_items'[k]].url = k
              /\ heap'[all_items'[k]].text = Node(k).text]_vars

\* C4: the nodes reachable from the root through children lists are exactly
\* the nodes held in all_items, and each child entry of a reachable node
\* resolves in all_items to that same node.
C4_NoOrphans ==
    LET reach == Closure(heap, {Root})
    IN  /\ reach = {all_items[k] : k \in DOMAIN all_items}
        /\ \A o \in reach : \A i \in 1..Len(heap[o].children) :
               LET c == heap[o].children[i]
               IN  heap[c].url \in DOMAIN all_items /\ all_items[heap[c].url] = c

\* C5: for every key but the root's, the key with the last segment stripped
\* is in all_items, that parent's children hold the key exactly once, and no
\* other node's children hold it.
C5_SingleParent ==
    \A k \in (DOMAIN all_items) \ {ROOT_URL} :
        /\ ParentKey(k) \in DOMAIN all_items
        /\ Cardinality({i \in 1..Len(Node(ParentKey(k)).children) :
                           ChildUrls(all_items[ParentKey(k)])[i] = k}) = 1
        /\ \A o \in (DOMAIN heap) \ {all_items[ParentKey(k)]} :
               \A i \in 1..Len(heap[o].children) : ChildUrls(o)[i] # k

\* C6: create_item on a parent_path in all_items succeeds: the node returned
\* is a new one with key parent_path + N + "/", N the parent's child count
\* before the call, with the given text and no children; it is the parent's
\* last child and the value of its key in all_items, and its key and
\* parent_path are both in updated_items afterwards.
C6_CreateSucceeds ==
    [][\A p \in DOMAIN all_items, t \in Texts :
          Created(p, t) =>
              LET par == all_items[p]
                  k == ChildKey(p, Len(heap[par].children))
                  n == last'.ret
              IN  /\ n # None
                  /\ n \notin DOMAIN heap
                  /\ n \in DOMAIN heap'
                  /\ heap'[n].url = k
                  /\ heap'[n].text = t
                  /\ heap'[n].children = <<>>
                  /\ heap'[par].children = Append(heap[par].children, n)
                  /\ k \in DOMAIN all_items'
                  /\ all_items'[k] = n
                  /\ {k, p} \subseteq updated_items']_vars

\* A second child has been created under a parent and the call returned it.
C6_Witness ==
    /\ last.op = "create_item"
    /\ last.ret # None
    /\ last.path \in DOMAIN all_items
    /\ ChildKey(last.path, 1) \in DOMAIN all_items
    /\ all_items[ChildKey(last.path, 1)] = last.ret
    /\ Len(Node(last.path).children) = 2
    /\ Node(last.path).children[2] = last.ret

\* C7: delete_item on the root's URL or on a URL that does not resolve
\* returns False and changes nothing in the store.
C7_DeleteFails ==
    [][\A k \in Paths :
          ((k = ROOT_URL \/ k \notin DOMAIN all_items) /\ Deleted(k)) =>
              /\ last'.ret = False
              /\ UNCHANGED <<heap, all_items, updated_items, item_count, clock>>]_vars

\* delete_item was called on the root while it had a child, and failed.
C7_Witness ==
    /\ last.op = "delete_item"
    /\ last.path = ROOT_URL
    /\ last.ret = False
    /\ ROOT_URL \in DOMAIN all_items
    /\ Len(heap[Root].children) > 0

\* C8: update_item and create_item on a URL that does not resolve return
\* None and change nothing in the store.
C8_NotFoundNoEffect ==
    [][\A k \in Paths \ DOMAIN all_items, t \in Texts :
          (Updated(k, t) \/ Created(k, t)) =>
              /\ last'.ret = None
              /\ UNCHANGED <<heap, all_items, updated_items, item_count, clock>>]_vars

\* update_item was called on the URL of an item deleted before, and failed.
C8_Witness ==
    /\ last.op = "update_item"
    /\ last.ret = None
    /\ last.path \notin DOMAIN all_items
    /\ last.path \in updated_items
    /\ last.path # MISSING_URL

\* What update_item does to the item at k, but for its last_modified.
UpdateEffect(k, t) ==
    LET o == all_items[k]
    IN  /\ last'.ret = o
        /\ heap'[o].text = t
        /\ heap'[o].url = heap[o].url
        /\ heap'[o].children = heap[o].children
        /\ updated_items' = updated_items \cup {k}
        /\ all_items' = all_items
        /\ DOMAIN heap' = DOMAIN heap
        /\ \A x \in (DOMAIN heap) \ {o} : heap'[x] = heap[x]

\* C9 as stated: update_item on a key in all_items replaces the text, makes
\* last_modified strictly greater than before, marks the key and leaves the
\* node's key and children and every other node as they were.
C9_UpdateStrict ==
    [][\A k \in DOMAIN all_items, t \in Texts :
          Updated(k, t) =>
              /\ UpdateEffect(k, t)
              /\ heap'[all_items[k]].last_modified > Node(k).last_modified]_vars

\* C9 amended: update_item on a key in all_items replaces the text, sets
\* last_modified to the time it reads, which is never less than the value
\* before and is greater whenever the clock has moved past that value, marks
\* the key and leaves the node's key and children and every other node as
\* they were.
C9_Update ==
    [][\A k \in DOMAIN all_items, t \in Texts :
          Updated(k, t) =>
              /\ UpdateEffect(k, t)
              /\ heap'[all_items[k]].last_modified = clock'
              /\ heap'[all_items[k]].last_modified >= Node(k).last_modified
              /\ clock' > Node(k).last_modified =>
                     heap'[all_items[k]].last_modified > Node(k).last_modified]_vars

\* update_item gave a created item the text "B" after the clock had moved.
C9_Witness ==
    /\ last.op = "update_item"
    /\ last.ret # None
    /\ last.path \in DOMAIN all_items
    /\ last.path # ROOT_URL
    /\ all_items[last.path] = last.ret
    /\ Node(last.path).text = "B"
    /\ Node(last.path).last_modified = clock
    /\ clock > 1

\* The step made, replaced or changed the node at k: it is new in all_items,
\* it is another object than before, its children changed, or the step is an
\* update_item on k.
Touched(k) ==
    \/ k \notin DOMAIN all_items
    \/ all_items'[k] # all_items[k]
    \/ heap'[all_items'[k]].children # Node(k).children
    \/ \E t \in Texts : Updated(k, t)

\* C10: the last_modified seen through all_items never decreases for any key
\* and never runs ahead of the clock, and a step that creates the node,
\* updates its text, appends a child to it or detaches a child from it sets
\* it to a time read during that step.
C10_LastModified ==
    [][\A k \in DOMAIN all_items' :
          LET n == heap'[all_items'[k]]
          IN  /\ n.last_modified <= clock'
              /\ k \in DOMAIN all_items =>
                     n.last_modified >= Node(k).last_modified
              /\ Touched(k) => n.last_modified >= clock]_vars

\* A delete_item detached the root's only child after the clock had moved.
C10_Witness ==
    /\ last.op = "delete_item"
    /\ last.ret = True
    /\ last.path \notin DOMAIN all_items
    /\ heap[Root].children = <<>>
    /\ heap[Root].last_modified = clock
    /\ clock > 1

\* The step is a call of get_updated_items(since).
Polled(since) == last'.op = "get_updated_items" /\ last'.since = since

\* C11: get_updated_items(0) called right after a create_item that returned
\* an item returns the new item's URL and parent_path, and called right
\* after an update_item that returned an item returns the updated URL.
C11_ChangeNotification ==
    [][Polled(0) =>
          /\ (last.op = "create_item" /\ last.ret # None) =>
                 {heap[last.ret].url, last.path} \subseteq last'.updated
          /\ (last.op = "update_item" /\ last.ret # None) =>
                 last.path \in last'.updated]_vars

\* get_updated_items(0) returned the root and a child that was created at
\* the time of the poll, more than a retention window after the start.
C11_Witness ==
    /\ last.op = "get_updated_items"
    /\ last.since = 0
    /\ ChildKey(ROOT_URL, 0) \in DOMAIN all_items
    /\ {ROOT_URL, ChildKey(ROOT_URL, 0)} \subseteq last.updated
    /\ Node(ChildKey(ROOT_URL, 0)).last_modified = last.now
    /\ last.now > Retention

\* C12: a get_updated_items whose since is the time the get_updated_items
\* right before it read, no other call in between, returns nothing.
C12_QuiescentPoll ==
    [][(last.op = "get_updated_items" /\ Polled(last.now)) =>
          last'.updated = {}]_vars

\* A later poll returned nothing while an item modified exactly at its
\* since is still recorded as updated.
C12_Witness ==
    /\ last.op = "get_updated_items"
    /\ last.updated = {}
    /\ last.now > last.since
    /\ \E k \in updated_items \cap DOMAIN all_items :
           Node(k).last_modified = last.since

\* C13: the URLs a call records in updated_items resolve when it records
\* them: the new URL and parent_path of a create_item that returned an item,
\* the path of an update_item that returned an item, and the parent path a
\* delete_item that returned True records last (line 98; the parent paths
\* recorded by the deletes of the children are those of items not yet
\* deleted).
C13_MarksResolve ==
    [][/\ \A p \in Paths, t \in Texts :
             (Created(p, t) /\ last'.ret # None) =>
                 {p, heap'[last'.ret].url} \subseteq DOMAIN all_items'
       /\ \A k \in Paths, t \in Texts :
             (Updated(k, t) /\ last'.ret # None) => k \in DOMAIN all_items'
       /\ \A k \in Paths :
             (Deleted(k) /\ last'.ret = True) =>
                 parent_path_of(k) \in DOMAIN all_items']_vars

\* C14: when get_updated_items reads a time by which every modification
\* ever made is older than the retention window, it leaves no URL in
\* updated_items that does not resolve.  (Every time a call has read is
\* the last_modified of a live item: a delete stores its reading in the
\* parent.)
C14_BoundedRetention ==
    [][(/\ last'.op = "get_updated_items"
        /\ \A o \in DOMAIN heap :
               heap[o].last_modified < last'.now - Retention) =>
          updated_items' \subseteq DOMAIN all_items']_vars

\* C15: the root's URL is in all_items and resolves to the object made by
\* OutlineModel.__init__, whose URL it is.
C15_RootPermanence ==
    /\ ROOT_URL \in DOMAIN all_items
    /\ all_items[ROOT_URL] = Root
    /\ Root \in DOMAIN heap
    /\ heap[Root].url = ROOT_URL

\* delete_item was called on the root and failed, after an item had been
\* created and deleted, a retention window had gone by and the records of
\* updates had been swept or cleared.
C15_Witness ==
    /\ last.op = "delete_item"
    /\ last.path = ROOT_URL
    /\ last.ret = False
    /\ item_count > 0
    /\ DOMAIN all_items = {ROOT_URL}
    /\ ROOT_URL \notin updated_items
    /\ clock > Retention

\* C16: an object keeps its url over every step, and every URL in all_items
\* resolves to an object with that url.
C16_KeyImmutable ==
    [][/\ \A o \in (DOMAIN heap) \cap (DOMAIN heap') :
             heap'[o].url = heap[o].url
       /\ \A k \in DOMAIN all_items' : heap'[all_items'[k]].url = k]_vars

\* A created item was updated after the clock had moved, and still has the
\* URL it resolves from.
C16_Witness ==
    /\ last.op = "update_item"
    /\ last.ret # None
    /\ last.ret # Root
    /\ last.path \in DOMAIN all_items
    /\ all_items[last.path] = last.ret
    /\ heap[last.ret].url = last.path
    /\ heap[last.ret].last_modified > 1

\* C18: get_updated_items(since) returns the URLs of updated_items that
\* resolve to an item with last_modified > since; it removes from
\* updated_items the URLs that resolve to an item with last_modified less
\* than the time it read minus the retention window, and no other; it
\* leaves all_items and every item as they were.
C18_GetUpdatedItems ==
    [][\A since \in Sinces :
          Polled(since) =>
              /\ last'.updated =
                     {k \in updated_items \cap DOMAIN all_items :
                         Node(k).last_modified > since}
              /\ updated_items' = updated_items \
                     {k \in updated_items \cap DOMAIN all_items :
                         Node(k).last_modified < last'.now - Retention}
              /\ last'.now = clock'
              /\ clock' >= clock
              /\ all_items' = all_items
              /\ heap' = heap]_vars

\* A poll returned the root and swept its record, the root being older than
\* the retention window, and left the record of a newer item.
C18_Witness ==
    /\ last.op = "get_updated_items"
    /\ ROOT_URL \in last.updated
    /\ ROOT_URL \notin updated_items
    /\ heap[Root].last_modified < last.now - Retention
    /\ \E k \in updated_items \cap DOMAIN all_items :
           Node(k).last_modified >= last.now - Retention

\* C19: after delete_item(k) returned True, the children of the item at k's
\* parent URL are those it had, in the same order, without any of URL k;
\* the parent's last_modified is the time the call read; the parent's URL
\* is in updated_items and get_updated_items(since) returns it for every
\* since before that time; and every item but the parent and those in the
\* subtree of k is as it was.
C19_DeleteDetaches ==
    [][\A k \in DOMAIN all_items :
          (Deleted(k) /\ last'.ret = True) =>
              /\ ParentKey(k) \in DOMAIN all_items
              /\ ParentKey(k) \in DOMAIN all_items'
              /\ all_items'[ParentKey(k)] = all_items[ParentKey(k)]
              /\ LET par == all_items[ParentKey(k)]
                 IN  /\ \A i \in 1..Len(heap'[par].children) :
                            heap'[heap'[par].children[i]].url # k
                     /\ heap'[par].children =
                            SelectSeq(heap[par].children,
                                      LAMBDA c : heap[c].url # k)
                     /\ heap'[par].last_modified = clock'
                     /\ heap'[par].last_modified >= heap[par].last_modified
                     /\ ParentKey(k) \in updated_items'
                     /\ \A since \in {x \in Sinces : x < clock'} :
                            ParentKey(k) \in
                                (get_updated_items(Store(AtRest), since).ret)'
                     /\ \A o \in (DOMAIN heap) \
                                (Closure(heap, {all_items[k]}) \cup {par}) :
                            o \in DOMAIN heap' /\ heap'[o] = heap[o]]_vars

\* The step answers a request of this method on /outline/<path>/ for the
\* URL k.
Requested(method, k) ==
    /\ last'.op = method
    /\ last'.path = k
    /\ k # ROOT_URL

\* C17: on /outline/<path>/ a GET is answered 200 if the URL resolves and
\* 404 if not, a POST 201 if the URL (the parent's) resolves and 404 if
\* not, a PUT 200 if the URL resolves and 404 if not, a DELETE 204 if
\* delete_item returned True and 404 if not; and a request answered 404
\* leaves the store as it was.
C17_HttpOutcome ==
    [][\A k \in Paths \ {ROOT_URL} :
          /\ Requested("GET", k) =>
                 last'.status = IF k \in DOMAIN all_items THEN 200 ELSE 404
          /\ Requested("POST", k) =>
                 last'.status = IF k \in DOMAIN all_items THEN 201 ELSE 404
          /\ Requested("PUT", k) =>
                 last'.status = IF k \in DOMAIN all_items THEN 200 ELSE 404
          /\ Requested("DELETE", k) =>
                 last'.status = IF last'.ret = True THEN 204 ELSE 404
          /\ (\E method \in {"GET", "POST", "PUT", "DELETE"} :
                 Requested(method, k) /\ last'.status = 404) =>
                 UNCHANGED <<heap, all_items, updated_items, item_count, clock>>]_vars

\* The call of thread t is past line 62: it has put its item in all_items.
Inserted(t) ==
    /\ frames[t].new_item # None
    /\ frames[t].pc \in {"63", "64", "66", "idle"}

\* The calls of threads t and u computed the same URL under the same
\* parent, which they do when both read the parent's children at line 57
\* before either appended at line 61.
SameKey(t, u) ==
    /\ t # u
    /\ frames[t].new_item # None
    /\ frames[u].new_item # None
    /\ frames[t].parent = frames[u].parent
    /\ frames[t].new_url = frames[u].new_url

\* C20: no lock keeps a thread from running line 57 of create_item while
\* another call on the same parent is between its lines 57 and 61, nothing
\* appended since: it then computes the URL the other call computed; two
\* calls that computed the same URL this way both append their item, so
\* that once both are past line 61 the parent's children hold two items
\* of that URL, and the call that runs line 62 second replaces the entry
\* of the first in all_items, which then resolves to the second's item.
C20_RaceCollides ==
    [][\A t \in Threads, u \in Threads :
          /\ (/\ t # u
              /\ frames[t].pc \in {"58", "60", "61"}
              /\ frames[t].new_url =
                     ChildKey(frames[t].parent_path,
                              Len(heap[frames[t].parent].children))
              /\ frames[u].parent_path = frames[t].parent_path
              /\ frames[u].pc = "57"
              /\ frames'[u].pc = "58") =>
                 frames'[u].new_url = frames[t].new_url
          /\ (SameKey(t, u) /\ Inserted(t) /\ Inserted(u)) =>
                 LET par == heap[frames[t].parent]
                 IN  /\ Cardinality({i \in 1..Len(par.children) :
                            heap[par.children[i]].url = frames[t].new_url}) = 2
                     /\ \E i, j \in 1..Len(par.children) :
                            /\ i # j
                            /\ par.children[i] = frames[t].new_item
                            /\ par.children[j] = frames[u].new_item
                     /\ all_items[frames[t].new_url]
                            \in {frames[t].new_item, frames[u].new_item}
          /\ (/\ SameKey(t, u)
              /\ Inserted(t)
              /\ frames[u].pc = "62"
              /\ frames'[u].pc = "63") =>
                 /\ all_items[frames[u].new_url] = frames[t].new_item
                 /\ all_items'[frames[u].new_url] = frames[u].new_item
                 /\ \A k \in DOMAIN all_items' :
                        all_items'[k] # frames[t].new_item]_vars

\* Two calls on the root have returned items of the same URL: the root's
\* children hold both, all_items the one inserted second.
C20_Witness ==
    /\ frames["t1"].pc = "idle"
    /\ frames["t2"].pc = "idle"
    /\ SameKey("t1", "t2")
    /\ frames["t1"].parent = Root
    /\ heap[Root].children = <<frames["t1"].new_item, frames["t2"].new_item>>
    /\ heap[frames["t1"].new_item].url = heap[frames["t2"].new_item].url
    /\ all_items[frames["t1"].new_url] = frames["t1"].new_item
    /\ item_count = 2
====
